---- MODULE Spec2Model ----
\* TradingBook: the P&L matching engine (public/electron.js, matchAndCalculatePnL
\* and the 'match-pnl' IPC handler) over the trades table (src/database/Database.js).
\*
\* Representation.
\*   - A row of the trades table is a record; a nullable column holds <<>> (NULL)
\*     or <<v>> (the value v).
\*   - Quantities, prices and commissions are integers (the code uses IEEE doubles;
\*     rounding is outside this model).
\*   - An entry date is an integer number of milliseconds of local time.  The text
\*     stored in the table may carry milliseconds (an ISO string written verbatim),
\*     new Date(text) keeps them, formatDateForStorage drops them.
\*   - A row also records whether its entry_date text is the local wall clock
\*     (YYYY-MM-DDTHH:mm:ss, what saveTrade writes for a Date) or the UTC wall
\*     clock with the suffix Z (an ISO string written verbatim, as the CSV import
\*     of electron.js passes it).  SQLite's DATE() and strftime() read the date
\*     that is written in the text.
\*   - The order of rows with equal entry_date returned by
\*     "SELECT ... ORDER BY entry_date DESC" is not fixed by SQLite; every order is
\*     allowed, so the first element of a stably sorted list is any element with
\*     the least date.
\*   - Every await inside matchAndCalculatePnL is on an already settled promise
\*     (better-sqlite3 is synchronous), so no other IPC handler runs between two
\*     steps of one invocation; a repository call may throw at any step.
EXTENDS Integers, Sequences, FiniteSets, TLC

VARIABLES
    trades,          \* the rows of the trades table
    nextId,          \* next AUTOINCREMENT id
    pc,              \* position of the match-pnl handler
    iterationCount,  \* electron.js:547
    hasMatches,      \* electron.js:546
    buy,             \* electron.js:601
    sell,            \* electron.js:602
    caught,          \* the catch block of matchAndCalculatePnL ran (electron.js:711)
    warned,          \* console.warn of electron.js:707 was issued
    result,          \* what the last 'match-pnl' call returned to the renderer
    trades0,         \* history: the table when the current invocation started
    matches,         \* history: one entry per matched trade saved, with the
                     \* table as it was when the pair was chosen
    ended,           \* history: how each finished invocation ended
    runs,            \* number of 'match-pnl' invocations so far
    utcOffset,       \* the machine's time zone: local time minus UTC, in ms
    request,         \* the last query the renderer invoked, with its arguments
    response         \* what that query resolved to

queryVars == <<utcOffset, request, response>>

vars == <<trades, nextId, pc, iterationCount, hasMatches, buy, sell, caught,
          warned, result, trades0, matches, ended, runs, utcOffset, request,
          response>>

----------------------------------------------------------------------------
\* Bounds of the model

MaxTrades == 4
MaxQty == 2
MaxPrice == 2
MaxCommission == 1
MaxSecond == 2
MaxRuns == 2
MaxPnl == 2
MaxDay == 3
MaxOffsetHours == 2

\* Program constants

maxIterations == 50
MsPerSecond == 1000
topLimit == 10

Null == <<>>
Some(v) == <<v>>

Min(a, b) == IF a <= b THEN a ELSE b

Symbols == {"AAPL", "MSFT"}
Sides == {"BUY", "SELL", "LONG", "SHORT"}

----------------------------------------------------------------------------
\* Database.js

\* formatDateForStorage: YYYY-MM-DDTHH:mm:ss, the milliseconds are not written
formatDateForStorage(date) == (date \div MsPerSecond) * MsPerSecond

\* the row saveTrade inserts for the object trade, under the id the table assigns
saveTradeRow(trade, id) ==
    [id         |-> id,
     symbol     |-> trade.symbol,
     side       |-> trade.side,
     quantity   |-> trade.quantity,
     entryPrice |-> trade.entryPrice,
     exitPrice  |-> trade.exitPrice,
     entryDate  |-> formatDateForStorage(trade.entryDate),
     exitDate   |-> IF trade.exitDate = Null THEN Null
                    ELSE Some(formatDateForStorage(trade.exitDate[1])),
     pnl        |-> trade.pnl,
     commission |-> IF trade.commission = Null THEN Some(0) ELSE trade.commission,
     strategy   |-> trade.strategy,
     notes      |-> trade.notes,
     tags       |-> trade.tags,
     assetType  |-> trade.assetType,
     utcText    |-> FALSE]

\* deleteTrade: DELETE FROM trades WHERE id = ?
deleteTradeRows(all, id) == {t \in all : t.id # id}

----------------------------------------------------------------------------
\* Database.js, the analytics queries

MsPerHour == 3600000
MsPerDay == 24 * MsPerHour

\* (x || 0) on a nullable number
OrZero(x) == IF x = Null THEN 0 ELSE x[1]

\* a quotient of two integers, kept as numerator and denominator
Ratio(n, d) == [num |-> n, den |-> d]
Zero == Ratio(0, 1)
Abs(n) == IF n < 0 THEN 0 - n ELSE n

\* (x || 0) on a nullable quotient
OrZeroRatio(x) == IF x = Null THEN Zero ELSE x[1]

\* Date.prototype.toISOString: the UTC wall clock of a Date
toISOString(date) == date - utcOffset

\* the wall clock written in the entry_date text of a row
entryDateText(t) == IF t.utcText THEN toISOString(t.entryDate) ELSE t.entryDate

\* SQLite DATE(x): the day written in x, counted from day 0 of the model's clock
DATE(clock) == clock \div MsPerDay

\* the calendar date of a day of the model's clock, whose day 0 is 2023-12-30
CalendarDate(n) ==
    IF n <= 1 THEN [year |-> 2023, month |-> 12, day |-> 30 + n]
    ELSE IF n <= 32 THEN [year |-> 2024, month |-> 1, day |-> n - 1]
    ELSE [year |-> 2024, month |-> 2, day |-> n - 32]

\* SQLite strftime('%m', x) and strftime('%Y', x), as numbers
strftime(format, clock) ==
    IF format = "%m" THEN CalendarDate(DATE(clock)).month
    ELSE CalendarDate(DATE(clock)).year

\* lines 426-441: the date conditions of the WHERE clause, for Date bounds
inDateRange(t, dateRange) ==
    /\ dateRange.startDate # Null =>
          DATE(entryDateText(t)) >= DATE(toISOString(dateRange.startDate[1]))
    /\ dateRange.endDate # Null =>
          DATE(entryDateText(t)) <= DATE(toISOString(dateRange.endDate[1]))

RECURSIVE SumPnl(_)
\* SUM(pnl) and SUM(CASE WHEN pnl IS NOT NULL THEN pnl ELSE 0 END)
SumPnl(rows) ==
    IF rows = {} THEN 0
    ELSE LET t == CHOOSE u \in rows : TRUE
         IN OrZero(t.pnl) + SumPnl(rows \ {t})

\* MAX(pnl) and MIN(pnl) over rows with pnl set
MaxOfPnl(rows) == CHOOSE x \in {t.pnl[1] : t \in rows} : \A t \in rows : t.pnl[1] <= x
MinOfPnl(rows) == CHOOSE x \in {t.pnl[1] : t \in rows} : \A t \in rows : t.pnl[1] >= x

\* variant of winningRows: a pnl of 0 counts as a win
winningRows_WithZero(rows) == {t \in rows : t.pnl # Null /\ t.pnl[1] >= 0}

\* CASE WHEN pnl > 0 and CASE WHEN pnl < 0 (NULL compares as unknown)
winningRows(rows) == {t \in rows : t.pnl # Null /\ t.pnl[1] > 0}
losingRows(rows) == {t \in rows : t.pnl # Null /\ t.pnl[1] < 0}

\* lines 421-441: FROM trades WHERE pnl IS NOT NULL AND the date conditions
selectedRows(rows, dateRange) ==
    {t \in rows : t.pnl # Null /\ inDateRange(t, dateRange)}

\* lines 412-444: the row of aggregates; an aggregate over no row is NULL
aggregateRow(rows, dateRange) ==
    LET sel == selectedRows(rows, dateRange)
        wins == winningRows(sel)
        losses == losingRows(sel)
    IN [total_trades   |-> Cardinality(sel),
        winning_trades |-> IF sel = {} THEN Null ELSE Some(Cardinality(wins)),
        losing_trades  |-> IF sel = {} THEN Null ELSE Some(Cardinality(losses)),
        total_pnl      |-> IF sel = {} THEN Null ELSE Some(SumPnl(sel)),
        avg_win        |-> IF wins = {} THEN Null
                           ELSE Some(Ratio(SumPnl(wins), Cardinality(wins))),
        avg_loss       |-> IF losses = {} THEN Null
                           ELSE Some(Ratio(SumPnl(losses), Cardinality(losses))),
        largest_win    |-> IF sel = {} THEN Null ELSE Some(MaxOfPnl(sel)),
        largest_loss   |-> IF sel = {} THEN Null ELSE Some(MinOfPnl(sel))]

\* variant of profitFactor: total gains over total losses
profitFactor_Totals(row) ==
    IF row.avg_loss # Null /\ row.avg_loss[1].num < 0
    THEN Ratio(Abs(OrZeroRatio(row.avg_win).num), Abs(row.avg_loss[1].num))
    ELSE Zero

\* lines 454-455
profitFactor(row) ==
    IF row.avg_loss # Null /\ row.avg_loss[1].num < 0
    THEN Ratio(Abs(OrZeroRatio(row.avg_win).num * row.avg_loss[1].den),
               Abs(OrZeroRatio(row.avg_win).den * row.avg_loss[1].num))
    ELSE Zero

\* variant of winRate: wins over wins and losses
winRate_Decided(row) ==
    IF OrZero(row.winning_trades) + OrZero(row.losing_trades) # 0
    THEN Ratio(OrZero(row.winning_trades),
               OrZero(row.winning_trades) + OrZero(row.losing_trades))
    ELSE Zero

\* line 450
winRate(row) ==
    IF row.total_trades # 0
    THEN Ratio(OrZero(row.winning_trades), row.total_trades)
    ELSE Zero

\* lines 465, 475: the columns of a top list
projected(t) ==
    [symbol |-> t.symbol, quantity |-> t.quantity, entry_price |-> t.entryPrice,
     exit_price |-> t.exitPrice, pnl |-> t.pnl[1],
     entry_date |-> entryDateText(t), exit_date |-> t.exitDate]

RECURSIVE topRows(_, _, _)
\* ORDER BY pnl DESC (sign 1) or ASC (sign -1) LIMIT n: every list the statement
\* can return; rows of equal pnl come in any order
topRows(rows, n, sign) ==
    IF n = 0 \/ rows = {} THEN {<<>>}
    ELSE LET firsts == {t \in rows :
                           \A u \in rows : sign * u.pnl[1] <= sign * t.pnl[1]}
         IN UNION {{<<projected(t)>> \o rest :
                       rest \in topRows(rows \ {t}, n - 1, sign)} : t \in firsts}

\* variant of topWinnerRows: no condition on the sign of pnl
topWinnerRows_AnySign(rows, dateRange) == selectedRows(rows, dateRange)

\* lines 464-482: the rows the two top lists are taken from
topWinnerRows(rows, dateRange) == winningRows(selectedRows(rows, dateRange))
topLoserRows(rows, dateRange) == losingRows(selectedRows(rows, dateRange))

\* lines 446-460 and 484-485: the object getPerformanceMetrics resolves to
getPerformanceMetrics(rows, dateRange, topWinners, topLosers) ==
    LET row == aggregateRow(rows, dateRange)
    IN [totalTrades   |-> row.total_trades,
        winningTrades |-> OrZero(row.winning_trades),
        losingTrades  |-> OrZero(row.losing_trades),
        winRate       |-> winRate(row),
        totalPnL      |-> OrZero(row.total_pnl),
        averageWin    |-> OrZeroRatio(row.avg_win),
        averageLoss   |-> OrZeroRatio(row.avg_loss),
        profitFactor  |-> profitFactor(row),
        largestWin    |-> OrZero(row.largest_win),
        largestLoss   |-> OrZero(row.largest_loss),
        sharpeRatio   |-> 0,
        maxDrawdown   |-> 0,
        topWinners    |-> topWinners,
        topLosers     |-> topLosers]

\* lines 510-511 and 518-519: the rows of the month (0-based) and year
calendarRows(rows, month, year) ==
    {t \in rows : /\ strftime("%m", entryDateText(t)) = month + 1
                  /\ strftime("%Y", entryDateText(t)) = year}

\* variant of calendarDay: the wins are divided by the trades with pnl set
calendarDay_SetPnl(group, day) ==
    [date       |-> day * MsPerDay,
     pnl        |-> SumPnl(group),
     tradeCount |-> Cardinality(group),
     winRate    |-> IF {t \in group : t.pnl # Null} # {}
                    THEN Ratio(Cardinality(winningRows(group)),
                               Cardinality({t \in group : t.pnl # Null}))
                    ELSE Zero]

\* lines 505-508 and 522-528: the entry of one group; its date is the local
\* midnight of the day the group has in common
calendarDay(group, day) ==
    [date       |-> day * MsPerDay,
     pnl        |-> SumPnl(group),
     tradeCount |-> Cardinality(group),
     winRate    |-> IF Cardinality(group) # 0
                    THEN Ratio(Cardinality(winningRows(group)), Cardinality(group))
                    ELSE Zero]

RECURSIVE calendarEntries(_, _)
\* GROUP BY DATE(entry_date) ORDER BY date, for the days given
calendarEntries(sel, days) ==
    IF days = {} THEN <<>>
    ELSE LET d == CHOOSE x \in days : \A y \in days : x <= y
         IN <<calendarDay({t \in sel : DATE(entryDateText(t)) = d}, d)>>
                \o calendarEntries(sel, days \ {d})

\* lines 500-535
getCalendarData(rows, month, year) ==
    LET sel == calendarRows(rows, month, year)
    IN calendarEntries(sel, {DATE(entryDateText(t)) : t \in sel})

----------------------------------------------------------------------------
\* electron.js, matchAndCalculatePnL

\* (x || 'Imported') on the strategy column: NULL and '' are both falsy
OrImported(x) == IF x = Null \/ x = Some("") THEN Some("Imported") ELSE x

\* (x || 'STOCK') on the asset type
OrStock(x) == IF x = "" THEN "STOCK" ELSE x

\* variant of unmatchedTrades: no filter on pnl
unmatchedTrades_All(allTrades) == allTrades

\* variant of unmatchedTrades: the filter !trade.pnl, which also lets pnl 0 pass
unmatchedTrades_Falsy(allTrades) ==
    {t \in allTrades : t.pnl = Null \/ t.pnl = Some(0)}

\* line 561: trades without P&L
unmatchedTrades(allTrades) == {t \in allTrades : t.pnl = Null}

\* lines 570-582: the groups of a symbol
buysOf(um, symbol) == {t \in um : t.symbol = symbol /\ t.side = "BUY"}
sellsOf(um, symbol) == {t \in um : t.symbol = symbol /\ t.side = "SELL"}

\* variant of sortedFirst: the list sorted descending
sortedFirst_Latest(list) == {t \in list : \A u \in list : t.entryDate >= u.entryDate}

\* lines 597-602: element 0 of the list sorted ascending by entryDate
sortedFirst(list) == {t \in list : \A u \in list : t.entryDate <= u.entryDate}

\* variant of matchedQuantity: the larger of the two quantities
matchedQuantity_Max(b, s) == IF b.quantity >= s.quantity THEN b.quantity ELSE s.quantity

\* line 605
matchedQuantity(b, s) == Min(b.quantity, s.quantity)

\* variant of calcPnl: the sell commission is not deducted
calcPnl_NoSellCommission(b, s) ==
    (s.entryPrice - b.entryPrice) * matchedQuantity(b, s) - OrZero(b.commission)

\* line 611
calcPnl(b, s) ==
    (s.entryPrice - b.entryPrice) * matchedQuantity(b, s)
        - OrZero(b.commission) - OrZero(s.commission)

\* variant of completeTrade: only the buy commission is carried
completeTrade_BuyCommission(b, s) ==
    [symbol     |-> b.symbol,
     side       |-> "BUY",
     quantity   |-> matchedQuantity(b, s),
     entryPrice |-> b.entryPrice,
     exitPrice  |-> Some(s.entryPrice),
     entryDate  |-> b.entryDate,
     exitDate   |-> Some(s.entryDate),
     pnl        |-> Some(calcPnl(b, s)),
     commission |-> Some(OrZero(b.commission)),
     strategy   |-> OrImported(b.strategy),
     notes      |-> [text |-> "Matched trade", buy |-> b.id, sell |-> s.id,
                     remainder |-> 0],
     tags       |-> b.tags,
     assetType  |-> OrStock(b.assetType)]

\* lines 616-634
completeTrade(b, s) ==
    [symbol     |-> b.symbol,
     side       |-> "BUY",
     quantity   |-> matchedQuantity(b, s),
     entryPrice |-> b.entryPrice,
     exitPrice  |-> Some(s.entryPrice),
     entryDate  |-> b.entryDate,
     exitDate   |-> Some(s.entryDate),
     pnl        |-> Some(calcPnl(b, s)),
     commission |-> Some(OrZero(b.commission) + OrZero(s.commission)),
     strategy   |-> OrImported(b.strategy),
     notes      |-> [text |-> "Matched trade", buy |-> b.id, sell |-> s.id,
                     remainder |-> 0],
     tags       |-> b.tags,
     assetType  |-> OrStock(b.assetType)]

\* variant of remainderTrade: the remainder keeps the commission of the leg
remainderTrade_KeepCommission(leg, q) ==
    [symbol     |-> leg.symbol,
     side       |-> leg.side,
     quantity   |-> leg.quantity - q,
     entryPrice |-> leg.entryPrice,
     exitPrice  |-> Null,
     entryDate  |-> leg.entryDate,
     exitDate   |-> Null,
     pnl        |-> Null,
     commission |-> leg.commission,
     strategy   |-> leg.strategy,
     notes      |-> [leg.notes EXCEPT !.remainder = @ + 1],
     tags       |-> leg.tags,
     assetType  |-> OrStock(leg.assetType)]

\* variant of remainderTrade: the remainder keeps the whole quantity of the leg
remainderTrade_FullQuantity(leg, q) ==
    [symbol     |-> leg.symbol,
     side       |-> leg.side,
     quantity   |-> leg.quantity,
     entryPrice |-> leg.entryPrice,
     exitPrice  |-> Null,
     entryDate  |-> leg.entryDate,
     exitDate   |-> Null,
     pnl        |-> Null,
     commission |-> Some(0),
     strategy   |-> leg.strategy,
     notes      |-> [leg.notes EXCEPT !.remainder = @ + 1],
     tags       |-> leg.tags,
     assetType  |-> OrStock(leg.assetType)]

\* lines 649-667 and 676-694: the remainder of leg after matching q of it
remainderTrade(leg, q) ==
    [symbol     |-> leg.symbol,
     side       |-> leg.side,
     quantity   |-> leg.quantity - q,
     entryPrice |-> leg.entryPrice,
     exitPrice  |-> Null,
     entryDate  |-> leg.entryDate,
     exitDate   |-> Null,
     pnl        |-> Null,
     commission |-> Some(0),
     strategy   |-> leg.strategy,
     notes      |-> [leg.notes EXCEPT !.remainder = @ + 1],
     tags       |-> leg.tags,
     assetType  |-> OrStock(leg.assetType)]

\* variant of hasRemainder: a leg matched in full also gets a remainder
hasRemainder_Always(leg, q) == leg.quantity >= q

\* lines 646 and 673
hasRemainder(leg, q) == leg.quantity > q

\* the keys of tradesBySymbol; for-in visits them in the order of their first
\* row in the list getTrades returned (entry_date descending)
latestDate(um, symbol) ==
    LET ds == {t.entryDate : t \in {u \in um : u.symbol = symbol}}
    IN CHOOSE d \in ds : \A e \in ds : e <= d

\* variant of pairsOf: a pair only when the buy is not later than the sell
pairsOf_BuyFirst(um, symbol) ==
    {p \in sortedFirst(buysOf(um, symbol)) \X sortedFirst(sellsOf(um, symbol)) :
        matchedQuantity(p[1], p[2]) > 0 /\ p[1].entryDate <= p[2].entryDate}

\* lines 591-607: the (buy, sell) pairs the loop body can reach for a symbol
pairsOf(um, symbol) ==
    {p \in sortedFirst(buysOf(um, symbol)) \X sortedFirst(sellsOf(um, symbol)) :
        matchedQuantity(p[1], p[2]) > 0}

\* lines 587-607: the pairs of the first symbol, in for-in order, that has one
firstPairs(um) ==
    LET syms == {t.symbol : t \in um}
        able == {sy \in syms : pairsOf(um, sy) # {}}
        first == {sy \in able :
                     \A other \in able : latestDate(um, other) <= latestDate(um, sy)}
    IN UNION {pairsOf(um, sy) : sy \in first}

\* variant of loopCondition: the ceiling test is off by one
loopCondition_OffByOne == hasMatches /\ iterationCount <= maxIterations

\* line 550
loopCondition == hasMatches /\ iterationCount < maxIterations

\* variant of limitReached: strict comparison
limitReached_Strict(count) == count > maxIterations

\* line 706
limitReached(count) == count >= maxIterations

\* lines 711-713: the catch block logs the error and does not rethrow it
catchRethrows == FALSE

\* lines 897-906: the result of the 'match-pnl' handler; its catch branch is
\* taken only if matchAndCalculatePnL throws
handlerResult(threw) ==
    IF threw
    THEN [success |-> FALSE, message |-> "error.message"]
    ELSE [success |-> TRUE, message |-> "P&L matching completed successfully"]

----------------------------------------------------------------------------
\* The tables the model starts from

NoNotes == [text |-> "", buy |-> 0, sell |-> 0, remainder |-> 0]

Exec(sy, sd, q, p, d, c) ==
    [symbol |-> sy, side |-> sd, quantity |-> q, entryPrice |-> p,
     exitPrice |-> Null, entryDate |-> d, exitDate |-> Null, pnl |-> Null,
     commission |-> c, strategy |-> Some(""), notes |-> NoNotes, tags |-> <<>>,
     assetType |-> "STOCK", utcText |-> FALSE]

\* an execution with its descriptive fields filled in
Labelled(exec, strategy, tags, assetType) ==
    [exec EXCEPT !.strategy = strategy, !.tags = tags, !.assetType = assetType]

Closed(sd, pl) ==
    [symbol |-> "AAPL", side |-> sd, quantity |-> 1, entryPrice |-> 1,
     exitPrice |-> Some(2), entryDate |-> MsPerSecond, exitDate |-> Some(2 * MsPerSecond),
     pnl |-> Some(pl), commission |-> Some(0), strategy |-> Some(""),
     notes |-> NoNotes, tags |-> <<>>, assetType |-> "STOCK", utcText |-> FALSE]

WholeSeconds == {s * MsPerSecond : s \in 1..MaxSecond}
Dates == WholeSeconds \cup {MsPerSecond + MsPerSecond \div 2}
Commissions == {Null} \cup {Some(c) : c \in 0..MaxCommission}
FewQuantities == {1, 2}
FewSeconds == {MsPerSecond, 2 * MsPerSecond}

RECURSIVE SubsetsUpTo(_, _)
SubsetsUpTo(S, n) ==
    IF n = 0 THEN {{}}
    ELSE LET smaller == SubsetsUpTo(S, n - 1)
         IN smaller \cup {R \cup {x} : R \in smaller, x \in S}

\* a buy and a later sell of one symbol, every quantity, price and commission
PriceTables ==
    {{Exec("AAPL", "BUY", qb, pb, MsPerSecond, cb),
      Exec("AAPL", "SELL", qs, ps, 2 * MsPerSecond, cs)} :
        qb \in 1..MaxQty, qs \in 1..MaxQty, pb \in 1..MaxPrice, ps \in 1..MaxPrice,
        cb \in Commissions, cs \in Commissions}

\* a sell entered before the buy of the same symbol, every quantity and price,
\* commission absent or present
EarlySellTables ==
    {{Exec("AAPL", "SELL", qs, ps, MsPerSecond, cs),
      Exec("AAPL", "BUY", qb, pb, 2 * MsPerSecond, cb)} :
        qb \in 1..MaxQty, qs \in 1..MaxQty, pb \in 1..MaxPrice, ps \in 1..MaxPrice,
        cb \in {Null, Some(MaxCommission)}, cs \in {Null, Some(MaxCommission)}}

\* up to three executions of one symbol on every date, with and without
\* milliseconds
DateExecs ==
    {Exec("AAPL", sd, q, 1, d, Some(0)) :
        sd \in {"BUY", "SELL"}, q \in FewQuantities, d \in Dates}

\* up to MaxTrades executions of two symbols
SymbolExecs ==
    {Exec("AAPL", sd, q, 1, d, Some(0)) :
        sd \in {"BUY", "SELL"}, q \in FewQuantities, d \in FewSeconds}
    \cup {Exec("MSFT", sd, 1, 2, d, Some(1)) : sd \in {"BUY", "SELL"}, d \in FewSeconds}

\* the four sides of the schema
SideExecs ==
    {Exec("AAPL", sd, 1, 1, d, Some(0)) : sd \in Sides, d \in FewSeconds}

\* tables that already hold matched trades
ClosedRows == {Closed(sd, pl) : sd \in {"BUY", "SELL"}, pl \in {-1, 0, 1}}
OpenRows == {Exec("AAPL", sd, q, 1, MsPerSecond, Some(0)) :
                sd \in {"BUY", "SELL"}, q \in FewQuantities}

\* the examples of the specification
ExampleTables ==
    { {Exec("AAPL", "BUY", 100, 10, MsPerSecond, Some(1)),
       Exec("AAPL", "SELL", 100, 12, 2 * MsPerSecond, Some(1))},
      {Exec("AAPL", "BUY", 150, 10, MsPerSecond, Some(0)),
       Exec("AAPL", "SELL", 100, 12, 2 * MsPerSecond, Some(0))},
      {Exec("AAPL", "BUY", 10, 10, MsPerSecond, Some(0)),
       Exec("AAPL", "BUY", 10, 11, 3 * MsPerSecond, Some(0)),
       Exec("AAPL", "SELL", 20, 12, 5 * MsPerSecond, Some(0))} }

\* a buy and a sell that differ in strategy, tags and asset type
Strategies == {Null, Some(""), Some("Swing")}
TagLists == {<<>>, <<"earnings">>}
AssetTypes == {"STOCK", "CRYPTO"}

LabelTables ==
    {{Labelled(Exec("AAPL", "BUY", q, 1, MsPerSecond, Some(0)), st, tg, at),
      Labelled(Exec("AAPL", "SELL", 1, 2, 2 * MsPerSecond, Some(0)),
               Some("Scalp"), <<"exit">>, "STOCK")} :
        q \in FewQuantities, st \in Strategies, tg \in TagLists, at \in AssetTypes}

SmallTables ==
    PriceTables
    \cup EarlySellTables
    \cup LabelTables
    \cup SubsetsUpTo(DateExecs, 3)
    \cup SubsetsUpTo(SymbolExecs, MaxTrades)
    \cup SubsetsUpTo(SideExecs, 3)
    \cup {C \cup O : C \in SubsetsUpTo(ClosedRows, 2) \ {{}}, O \in SubsetsUpTo(OpenRows, 2)}
    \cup ExampleTables

RECURSIVE WithIds(_, _)
WithIds(R, from) ==
    IF R = {} THEN {}
    ELSE LET x == CHOOSE y \in R : TRUE
         IN {[id |-> from] @@ x} \cup WithIds(R \ {x}, from + 1)

\* one buy of n shares and n one-share sells on n different seconds: a table
\* that needs n matches
LongTable(n) ==
    {[id |-> 1] @@ Exec("AAPL", "BUY", n, 1, MsPerSecond, Some(1))}
    \cup {[id |-> i + 1] @@ Exec("AAPL", "SELL", 1, 2, i * MsPerSecond, Some(0)) : i \in 1..n}

LongTables == {LongTable(n) : n \in (maxIterations - 1)..(maxIterations + 1)}

ShortTables == {WithIds(R, 1) : R \in SmallTables}
InitTables == ShortTables \cup LongTables

NoTrade == [id |-> 0] @@ Exec("", "", 0, 0, 0, Null)
NoResult == [success |-> FALSE, message |-> ""]
NoRequest == [channel |-> ""]
NoResponse == <<>>

TopId(rows) == IF rows = {} THEN 0 ELSE CHOOSE i \in {t.id : t \in rows} : \A t \in rows : t.id <= i

InitFrom(tables, offsets) ==
    /\ trades \in tables
    /\ nextId = TopId(trades) + 1
    /\ pc = "idle"
    /\ iterationCount = 0
    /\ hasMatches = FALSE
    /\ buy = NoTrade
    /\ sell = NoTrade
    /\ caught = FALSE
    /\ warned = FALSE
    /\ result = NoResult
    /\ trades0 = trades
    /\ matches = <<>>
    /\ ended = <<>>
    /\ runs = 0
    /\ utcOffset \in offsets
    /\ request = NoRequest
    /\ response = NoResponse

Init == InitFrom(InitTables, {0})

\* the tables the runs with failing repository calls start from
FaultInit == InitFrom(ShortTables, {0})

\* the tables, time zones and arguments the analytics queries are run with

\* a trade of one share-lot entered at the local wall clock d, with its pnl and
\* the form of its entry_date text
Entered(q, pl, d, utc) ==
    [Exec("AAPL", "BUY", q, 1, d, Some(0)) EXCEPT !.pnl = pl, !.utcText = utc]

Hours == {1, 23}
Noon == MsPerDay + 12 * MsPerHour
Moments == {d * MsPerDay + h * MsPerHour : d \in 1..MaxDay, h \in Hours}
PnlValues == {Null} \cup {Some(x) : x \in (0 - MaxPnl)..MaxPnl}

\* up to three trades of one day, every pnl
PnlRows == {Entered(q, pl, Noon, FALSE) : q \in FewQuantities, pl \in PnlValues}

\* up to two trades on the days around the turn of the year, early and late in
\* the day, in both forms of text
DayRows ==
    {Entered(1, pl, d, utc) :
        pl \in {Null, Some(1)}, d \in Moments, utc \in BOOLEAN}

\* w winners and l losers of distinct pnl, one of the winners in a tie with
\* another trade for the smallest gain
ManyTable(w, l) ==
    {Entered(1, Some(i), Noon, FALSE) : i \in 1..(w - 1)}
    \cup {Entered(1, Some(0 - i), Noon, FALSE) : i \in 1..l}
    \cup {Entered(2, Some(1), Noon, FALSE)}

PnlTables ==
    {WithIds(R, 1) : R \in SubsetsUpTo(PnlRows, 3)
                           \cup {ManyTable(w, l) : w, l \in (topLimit - 1)..(topLimit + 1)}}
DayTables == {WithIds(R, 1) : R \in SubsetsUpTo(DayRows, 2)}

Offsets == {h * MsPerHour : h \in {0 - MaxOffsetHours, 0, MaxOffsetHours}}

\* Date bounds: the local midnight and a late hour of a day; or no bound
RangeBounds ==
    {Null} \cup {Some(d * MsPerDay + h * MsPerHour) : d \in 1..(MaxDay - 1), h \in {0, 23}}
DateRanges == {[startDate |-> a, endDate |-> b] : a \in RangeBounds, b \in RangeBounds}

Months == {0, 11}
Years == {2023, 2024}

QueryInit == InitFrom(PnlTables, {0}) \/ InitFrom(DayTables, Offsets)

\* the tables on which matching and the analytics queries are run in turn
MixedTables == {WithIds(R, 1) : R \in ExampleTables \cup LabelTables}
MixedInit == InitFrom(MixedTables, {0})

----------------------------------------------------------------------------
\* Actions

\* the function returns (normally or through its catch block) and the handler
\* answers the renderer
Return(threw, count, found) ==
    /\ pc' = "idle"
    /\ ended' = Append(ended, [threw |-> threw, count |-> count, found |-> found])
    /\ caught' = threw
    /\ warned' = (~threw /\ limitReached(count))
    /\ result' = handlerResult(threw /\ catchRethrows)

\* ipcMain.handle('match-pnl') is invoked: lines 897-900 and 542-548
MatchPnl ==
    /\ pc = "idle"
    /\ UNCHANGED queryVars
    /\ runs < MaxRuns
    /\ pc' = "loop"
    /\ runs' = runs + 1
    /\ hasMatches' = TRUE
    /\ iterationCount' = 0
    /\ caught' = FALSE
    /\ warned' = FALSE
    /\ result' = NoResult
    /\ buy' = NoTrade
    /\ sell' = NoTrade
    /\ trades0' = trades
    /\ UNCHANGED <<trades, nextId, matches, ended>>

\* one pass that takes its legs from the table as it was when the invocation
\* started, not from a fresh read
Iterate_Stale ==
    /\ pc = "loop"
    /\ UNCHANGED queryVars
    /\ loopCondition
    /\ iterationCount' = iterationCount + 1
    /\ LET um == unmatchedTrades(trades0)
       IN IF um = {}
          THEN /\ hasMatches' = FALSE
               /\ Return(FALSE, iterationCount + 1, FALSE)
               /\ UNCHANGED <<buy, sell>>
          ELSE IF firstPairs(um) = {}
          THEN /\ hasMatches' = FALSE
               /\ pc' = "loop"
               /\ UNCHANGED <<buy, sell, caught, warned, result, ended>>
          ELSE \E p \in firstPairs(um) :
               /\ buy' = p[1]
               /\ sell' = p[2]
               /\ hasMatches' = FALSE
               /\ pc' = "saveComplete"
               /\ UNCHANGED <<caught, warned, result, ended>>
    /\ UNCHANGED <<trades, nextId, trades0, matches, runs>>

\* one pass of the while loop up to the choice of the pair: lines 550-607
Iterate ==
    /\ pc = "loop"
    /\ UNCHANGED queryVars
    /\ loopCondition
    /\ iterationCount' = iterationCount + 1
    /\ LET um == unmatchedTrades(trades)
       IN IF um = {}
          THEN \* line 566: break, then lines 706-710 and the handler's return
               /\ hasMatches' = FALSE
               /\ Return(FALSE, iterationCount + 1, FALSE)
               /\ UNCHANGED <<buy, sell>>
          ELSE IF firstPairs(um) = {}
          THEN \* no symbol has a pair: the for loop ends without a match
               /\ hasMatches' = FALSE
               /\ pc' = "loop"
               /\ UNCHANGED <<buy, sell, caught, warned, result, ended>>
          ELSE \E p \in firstPairs(um) :
               /\ buy' = p[1]
               /\ sell' = p[2]
               /\ hasMatches' = FALSE
               /\ pc' = "saveComplete"
               /\ UNCHANGED <<caught, warned, result, ended>>
    /\ UNCHANGED <<trades, nextId, trades0, matches, runs>>

\* the loop condition is false: lines 706-710 and the handler's return
Finish ==
    /\ pc = "loop"
    /\ UNCHANGED queryVars
    /\ ~loopCondition
    /\ Return(FALSE, iterationCount, hasMatches)
    /\ UNCHANGED <<trades, nextId, iterationCount, hasMatches, buy, sell,
                   trades0, matches, runs>>

\* line 637: await db.saveTrade(completeTrade)
SaveCompleteTrade ==
    /\ pc = "saveComplete"
    /\ UNCHANGED queryVars
    /\ trades' = trades \cup {saveTradeRow(completeTrade(buy, sell), nextId)}
    /\ nextId' = nextId + 1
    /\ matches' = Append(matches, [buy |-> buy, sell |-> sell, complete |-> nextId,
                                   run |-> runs, before |-> trades])
    /\ pc' = "deleteBuy"
    /\ UNCHANGED <<iterationCount, hasMatches, buy, sell, caught, warned, result,
                   trades0, ended, runs>>

\* line 641: await db.deleteTrade(buy.id)
DeleteBuy ==
    /\ pc = "deleteBuy"
    /\ UNCHANGED queryVars
    /\ trades' = deleteTradeRows(trades, buy.id)
    /\ pc' = "deleteSell"
    /\ UNCHANGED <<nextId, iterationCount, hasMatches, buy, sell, caught, warned,
                   result, trades0, matches, ended, runs>>

\* line 642: await db.deleteTrade(sell.id)
DeleteSell ==
    /\ pc = "deleteSell"
    /\ UNCHANGED queryVars
    /\ trades' = deleteTradeRows(trades, sell.id)
    /\ pc' = "remainderBuy"
    /\ UNCHANGED <<nextId, iterationCount, hasMatches, buy, sell, caught, warned,
                   result, trades0, matches, ended, runs>>

\* lines 646-671
RemainderBuy ==
    /\ pc = "remainderBuy"
    /\ UNCHANGED queryVars
    /\ IF hasRemainder(buy, matchedQuantity(buy, sell))
       THEN /\ trades' = trades \cup
                  {saveTradeRow(remainderTrade(buy, matchedQuantity(buy, sell)), nextId)}
            /\ nextId' = nextId + 1
       ELSE UNCHANGED <<trades, nextId>>
    /\ pc' = "remainderSell"
    /\ UNCHANGED <<iterationCount, hasMatches, buy, sell, caught, warned, result,
                   trades0, matches, ended, runs>>

\* lines 673-701
RemainderSell ==
    /\ pc = "remainderSell"
    /\ UNCHANGED queryVars
    /\ IF hasRemainder(sell, matchedQuantity(buy, sell))
       THEN /\ trades' = trades \cup
                  {saveTradeRow(remainderTrade(sell, matchedQuantity(buy, sell)), nextId)}
            /\ nextId' = nextId + 1
       ELSE UNCHANGED <<trades, nextId>>
    /\ hasMatches' = TRUE
    /\ pc' = "loop"
    /\ UNCHANGED <<iterationCount, buy, sell, caught, warned, result, trades0,
                   matches, ended, runs>>

\* the repository call the function is about to make throws; the catch block
\* of lines 711-713 runs and the handler answers
callsRepository ==
    \/ pc = "loop" /\ loopCondition
    \/ pc \in {"saveComplete", "deleteBuy", "deleteSell"}
    \/ pc = "remainderBuy" /\ hasRemainder(buy, matchedQuantity(buy, sell))
    \/ pc = "remainderSell" /\ hasRemainder(sell, matchedQuantity(buy, sell))

\* variant of DbThrows: the table is put back as the invocation found it
DbThrows_RollingBack ==
    /\ callsRepository
    /\ UNCHANGED queryVars
    /\ Return(TRUE, iterationCount, hasMatches)
    /\ trades' = trades0
    /\ UNCHANGED <<nextId, iterationCount, hasMatches, buy, sell,
                   trades0, matches, runs>>

DbThrows ==
    /\ callsRepository
    /\ UNCHANGED queryVars
    /\ Return(TRUE, iterationCount, hasMatches)
    /\ UNCHANGED <<trades, nextId, iterationCount, hasMatches, buy, sell,
                   trades0, matches, runs>>

\* ipcMain.handle('get-performance-metrics'): lines 342-349 and Database.js 408-498
GetPerformanceMetrics ==
    /\ pc = "idle"
    /\ \E dateRange \in DateRanges :
          \E topWinners \in topRows(topWinnerRows(trades, dateRange), topLimit, 1),
             topLosers \in topRows(topLoserRows(trades, dateRange), topLimit, 0 - 1) :
              /\ request' = [channel |-> "get-performance-metrics",
                             dateRange |-> dateRange]
              /\ response' = getPerformanceMetrics(trades, dateRange,
                                                   topWinners, topLosers)
    /\ UNCHANGED <<trades, nextId, pc, iterationCount, hasMatches, buy, sell,
                   caught, warned, result, trades0, matches, ended, runs,
                   utcOffset>>

\* variant of GetCalendarData: the rows read are removed from the table
GetCalendarData_Consuming ==
    /\ pc = "idle"
    /\ \E month \in Months, year \in Years :
          /\ request' = [channel |-> "get-calendar-data", month |-> month,
                         year |-> year]
          /\ response' = getCalendarData(trades, month, year)
          /\ trades' = trades \ calendarRows(trades, month, year)
    /\ UNCHANGED <<nextId, pc, iterationCount, hasMatches, buy, sell,
                   caught, warned, result, trades0, matches, ended, runs,
                   utcOffset>>

\* ipcMain.handle('get-calendar-data'): lines 351-358 and Database.js 500-535
GetCalendarData ==
    /\ pc = "idle"
    /\ \E month \in Months, year \in Years :
          /\ request' = [channel |-> "get-calendar-data", month |-> month,
                         year |-> year]
          /\ response' = getCalendarData(trades, month, year)
    /\ UNCHANGED <<trades, nextId, pc, iterationCount, hasMatches, buy, sell,
                   caught, warned, result, trades0, matches, ended, runs,
                   utcOffset>>

Next ==
    \/ MatchPnl
    \/ Iterate
    \/ Finish
    \/ SaveCompleteTrade
    \/ DeleteBuy
    \/ DeleteSell
    \/ RemainderBuy
    \/ RemainderSell

\* every repository call succeeds
Spec == Init /\ [][Next]_vars

\* a repository call may throw
FaultNext == Next \/ DbThrows

FaultSpec == FaultInit /\ [][FaultNext]_vars

\* the analytics queries over a table, in a time zone
QueryNext ==
    \/ GetPerformanceMetrics
    \/ GetCalendarData

QuerySpec == QueryInit /\ [][QueryNext]_vars

\* matching and the analytics queries, each handler running to its end before
\* the next is invoked
MixedNext == Next \/ QueryNext

MixedSpec == MixedInit /\ [][MixedNext]_vars

\* the handler is one thread of control: once invoked it keeps executing
FairSpec ==
    Spec /\ WF_vars(Iterate \/ Finish \/ SaveCompleteTrade \/ DeleteBuy \/ DeleteSell
                        \/ RemainderBuy \/ RemainderSell)

----------------------------------------------------------------------------
\* Notions the properties share

RECURSIVE SumQuantity(_)
SumQuantity(rows) ==
    IF rows = {} THEN 0
    ELSE LET t == CHOOSE u \in rows : TRUE
         IN t.quantity + SumQuantity(rows \ {t})

\* open position of a symbol: unmatched shares bought minus unmatched shares sold
NetPosition(rows, symbol) ==
    SumQuantity({t \in rows : t.pnl = Null /\ t.symbol = symbol /\ t.side = "BUY"})
    - SumQuantity({t \in rows : t.pnl = Null /\ t.symbol = symbol /\ t.side = "SELL"})

SymbolsOf(rows) == {t.symbol : t \in rows}

\* a symbol with an unmatched BUY and an unmatched SELL
HasPair(rows, symbol) ==
    /\ \E t \in rows : t.pnl = Null /\ t.symbol = symbol /\ t.side = "BUY"
    /\ \E t \in rows : t.pnl = Null /\ t.symbol = symbol /\ t.side = "SELL"

NoPairLeft(rows) == \A sy \in SymbolsOf(rows) : ~HasPair(rows, sy)

\* an invocation has returned
Ended == pc = "idle" /\ runs > 0

\* the matches of the current invocation
MatchesOfRun == {i \in DOMAIN matches : matches[i].run = runs}

\* the rows with the id of a saved matched trade
CompleteRows(m) == {t \in trades : t.id = m.complete}

----------------------------------------------------------------------------
C2_Fifo ==
    pc = "saveComplete" =>
        /\ buy \in trades /\ buy.pnl = Null /\ buy.side = "BUY"
        /\ sell \in trades /\ sell.pnl = Null /\ sell.side = "SELL"
        /\ sell.symbol = buy.symbol
        /\ \A t \in trades :
              (t.pnl = Null /\ t.symbol = buy.symbol /\ t.side = "BUY")
                  => buy.entryDate <= t.entryDate
        /\ \A t \in trades :
              (t.pnl = Null /\ t.symbol = sell.symbol /\ t.side = "SELL")
                  => sell.entryDate <= t.entryDate

C2_Witness ==
    /\ pc = "saveComplete"
    /\ \E t \in trades :
          /\ t.pnl = Null /\ t.symbol = buy.symbol /\ t.side = "BUY"
          /\ t.entryDate > buy.entryDate
          /\ sell.entryDate > t.entryDate

\* C3 - Exact P&L: every matched trade saved has
\* pnl = (sell.entryPrice - buy.entryPrice) * min(buy.quantity, sell.quantity)
\*       - buy.commission - sell.commission  for the two trades it consumed.
C3_ExactPnl ==
    \A i \in DOMAIN matches :
        LET m == matches[i]
            q == IF m.buy.quantity <= m.sell.quantity THEN m.buy.quantity
                 ELSE m.sell.quantity
            cb == IF m.buy.commission = Null THEN 0 ELSE m.buy.commission[1]
            cs == IF m.sell.commission = Null THEN 0 ELSE m.sell.commission[1]
        IN /\ CompleteRows(m) # {}
           /\ \A t \in CompleteRows(m) :
                 t.pnl = Some((m.sell.entryPrice - m.buy.entryPrice) * q - cb - cs)

C3_Witness ==
    \E i \in DOMAIN matches :
        /\ matches[i].buy.quantity = 100 /\ matches[i].buy.entryPrice = 10
        /\ matches[i].buy.commission = Some(1)
        /\ matches[i].sell.quantity = 100 /\ matches[i].sell.entryPrice = 12
        /\ matches[i].sell.commission = Some(1)
        /\ \E t \in CompleteRows(matches[i]) : t.pnl = Some(198)

\* the pass that just ended applied a match: buy and sell are its legs
MatchApplied == pc = "loop" /\ hasMatches /\ iterationCount > 0

\* the rows inserted after the matched trade of the last match
AddedAfterMatch == {t \in trades : t.id > matches[Len(matches)].complete}

\* r is the remainder the claim describes for leg
IsRemainderOf(r, leg, q) ==
    /\ r.symbol = leg.symbol
    /\ r.side = leg.side
    /\ r.quantity = leg.quantity - q
    /\ r.entryPrice = leg.entryPrice
    /\ r.entryDate = leg.entryDate
    /\ r.pnl = Null
    /\ r.commission = Some(0)

\* C4 - Partial-fill remainder: after a match of q = min(buy.quantity,
\* sell.quantity) shares, a leg whose quantity exceeds q has exactly one remainder
\* row, of its side, with quantity leg.quantity - q, the leg's entry price and
\* entry date, pnl unset and commission 0; a leg of quantity q has none.
C4_PartialFillRemainder ==
    MatchApplied =>
        LET q == IF buy.quantity <= sell.quantity THEN buy.quantity ELSE sell.quantity
            rb == {t \in AddedAfterMatch : t.side = "BUY"}
            rs == {t \in AddedAfterMatch : t.side = "SELL"}
        IN /\ AddedAfterMatch = rb \cup rs
           /\ IF buy.quantity > q
              THEN \E r \in rb : rb = {r} /\ IsRemainderOf(r, buy, q)
              ELSE rb = {}
           /\ IF sell.quantity > q
              THEN \E r \in rs : rs = {r} /\ IsRemainderOf(r, sell, q)
              ELSE rs = {}

\* the invocation that just returned started from a table without any pair
StartedWithoutPair == Ended /\ NoPairLeft(trades0)

\* the invocation that just returned changed nothing and matched nothing
WasNoOp == trades = trades0 /\ MatchesOfRun = {}

\* C5 as stated - Idempotence: an invocation on a table in which no symbol has an
\* unmatched BUY and an unmatched SELL matches nothing and changes nothing, and
\* so does an invocation that follows one that returned without an error.
C5_AsStated ==
    /\ StartedWithoutPair => WasNoOp
    /\ (Ended /\ runs >= 2 /\ ~ended[runs - 1].threw /\ ~caught) => WasNoOp

\* C5 - Idempotence: an invocation on a table in which no symbol has an unmatched
\* BUY and an unmatched SELL matches nothing and changes nothing, and so does an
\* invocation that follows one whose last pass found no pair to match.
C5_Idempotence ==
    /\ StartedWithoutPair => WasNoOp
    /\ (Ended /\ runs >= 2 /\ ~ended[runs - 1].threw /\ ~ended[runs - 1].found)
           => WasNoOp

C5_Witness ==
    /\ Ended /\ runs = 2
    /\ ~ended[1].threw /\ ~ended[1].found
    /\ matches # <<>>
    /\ WasNoOp

\* C6 - Termination: an invocation never makes more than maxIterations passes, it
\* returns, and when it returns after fewer than maxIterations passes no symbol is
\* left with an unmatched BUY and an unmatched SELL.
C6_Termination ==
    /\ [](iterationCount <= maxIterations)
    /\ []((Ended /\ ~caught /\ iterationCount < maxIterations) => NoPairLeft(trades))
    /\ ((pc # "idle") ~> (pc = "idle"))

C6_Witness ==
    /\ Ended /\ ~caught
    /\ iterationCount < maxIterations
    /\ Cardinality(MatchesOfRun) >= 2

\* C7 - Failure reporting: when a repository call throws during an invocation,
\* the 'match-pnl' call returns a failure.
C7_FailureReported == (Ended /\ caught) => result.success = FALSE

\* the invocation that just returned left its loop at the iteration ceiling
\* after a pass that matched
StoppedByLimit == Ended /\ ~caught /\ hasMatches /\ iterationCount >= maxIterations

C9_MatchedImmutable ==
    [][ /\ \A t \in trades : t.pnl # Null => t \in trades'
        /\ pc' = "saveComplete" =>
              /\ buy' \in trades /\ buy'.pnl = Null
              /\ sell' \in trades /\ sell'.pnl = Null ]_vars

C9_Witness ==
    /\ pc = "saveComplete"
    /\ \E t \in trades0 : t.pnl # Null /\ t.symbol = buy.symbol /\ t.side = "BUY"
    /\ \E i \in MatchesOfRun : CompleteRows(matches[i]) # {}

\* C10 - Commission rule: the commission of every matched trade is the sum of
\* the commissions of the two trades it consumed (an absent one counting 0), and
\* every remainder trade has commission 0.
C10_CommissionRule ==
    /\ \A i \in DOMAIN matches :
          LET m == matches[i]
              cb == IF m.buy.commission = Null THEN 0 ELSE m.buy.commission[1]
              cs == IF m.sell.commission = Null THEN 0 ELSE m.sell.commission[1]
          IN /\ CompleteRows(m) # {}
             /\ \A t \in CompleteRows(m) : t.commission = Some(cb + cs)
    /\ \A t \in trades : t.notes.remainder > 0 => t.commission = Some(0)

C10_Witness ==
    /\ \E i \in DOMAIN matches :
          /\ matches[i].buy.commission = Some(1)
          /\ matches[i].sell.commission = Some(1)
          /\ \E t \in CompleteRows(matches[i]) : t.commission = Some(2)
    /\ \E t \in trades : t.notes.remainder > 0 /\ t.commission = Some(0)

\* the last pair for which a matched trade was saved
LastMatch == matches[Len(matches)]

\* the matched trades in the table that name b and s as their sources
MatchedRowsOf(b, s) ==
    {t \in trades : t.notes.text = "Matched trade" /\ t.notes.buy = b.id
                    /\ t.notes.sell = s.id}

\* the table holds a remainder of leg inserted after the row c
RemainderPresent(c, leg, q) ==
    \E r \in trades :
        /\ r.id > c.id /\ r.pnl = Null
        /\ r.symbol = leg.symbol /\ r.side = leg.side
        /\ r.quantity = leg.quantity - q

\* the whole match of b and s is in the table
WholeMatch(b, s) ==
    LET q == IF b.quantity <= s.quantity THEN b.quantity ELSE s.quantity
    IN /\ b \notin trades
       /\ s \notin trades
       /\ \E c \in MatchedRowsOf(b, s) :
             /\ b.quantity > q => RemainderPresent(c, b, q)
             /\ s.quantity > q => RemainderPresent(c, s, q)

\* nothing of the match of b and s is in the table
NoMatch(b, s) ==
    /\ b \in trades
    /\ s \in trades
    /\ MatchedRowsOf(b, s) = {}

\* C11 - All-or-nothing match: when a repository call fails inside an invocation
\* that had chosen a pair, the table holds either the whole match of that pair
\* (matched trade and remainders present, both originals absent) or nothing of
\* it (both originals present, no matched trade, no remainder).
C11_AllOrNothing ==
    (Ended /\ caught /\ buy # NoTrade) => (WholeMatch(buy, sell) \/ NoMatch(buy, sell))

\* C12 as stated - Per-match quantity: the quantities of the two trades a match
\* removed sum to the quantities of the rows it added (the matched trade and the
\* remainders).
C12_AsStated ==
    MatchApplied =>
        LastMatch.buy.quantity + LastMatch.sell.quantity
            = SumQuantity(CompleteRows(LastMatch) \cup AddedAfterMatch)

\* C12 - Per-match quantity: the quantity of each consumed leg equals the
\* quantity of the matched trade plus the quantity of the leg's remainder, so the
\* two removed quantities sum to twice the matched quantity plus the remainders.
C12_PerMatchQuantity ==
    MatchApplied =>
        LET m == LastMatch
            q == SumQuantity(CompleteRows(m))
        IN /\ m.buy \notin trades /\ m.sell \notin trades
           /\ Cardinality(CompleteRows(m)) = 1
           /\ m.buy.quantity = q + SumQuantity({t \in AddedAfterMatch : t.side = "BUY"})
           /\ m.sell.quantity = q + SumQuantity({t \in AddedAfterMatch : t.side = "SELL"})
           /\ m.buy.quantity + m.sell.quantity = 2 * q + SumQuantity(AddedAfterMatch)

C12_Witness ==
    /\ MatchApplied
    /\ LastMatch.buy.quantity = 150 /\ LastMatch.sell.quantity = 100
    /\ \E r \in AddedAfterMatch : r.side = "BUY" /\ r.quantity = 50

\* C13 - Matched-trade fields: once the matched trade is saved and the originals
\* are deleted, the table is the one the pair was chosen from without the two
\* originals and with one new row that has side BUY, quantity min(buy.quantity,
\* sell.quantity), the buy's entry price and entry date, the sell's entry price
\* and entry date as exit price and exit date, pnl set, and the buy's symbol,
\* strategy, tags and asset type.
C13_MatchedTradeFields ==
    pc = "remainderBuy" =>
        LET m == LastMatch
            q == IF m.buy.quantity <= m.sell.quantity THEN m.buy.quantity
                 ELSE m.sell.quantity
        IN \E c \in trades :
              /\ c.id = m.complete
              /\ c.side = "BUY"
              /\ c.quantity = q
              /\ c.entryPrice = m.buy.entryPrice
              /\ c.exitPrice = Some(m.sell.entryPrice)
              /\ c.entryDate = m.buy.entryDate
              /\ c.exitDate = Some(m.sell.entryDate)
              /\ c.pnl # Null
              /\ c.symbol = m.buy.symbol
              /\ c.strategy = m.buy.strategy
              /\ c.tags = m.buy.tags
              /\ c.assetType = m.buy.assetType
              /\ m.buy \in m.before /\ m.sell \in m.before
              /\ trades \ {c} = m.before \ {m.buy, m.sell}

----------------------------------------------------------------------------
\* Notions the properties of the analytics queries share

\* the last call was get-performance-metrics / get-calendar-data
MetricsAnswered == request.channel = "get-performance-metrics"
CalendarAnswered == request.channel = "get-calendar-data"

\* the trades the WHERE clause of the last metrics call let pass on their date
InRange == {t \in trades : inDateRange(t, request.dateRange)}

\* those of them that have pnl set, won, lost
Counted == {t \in InRange : t.pnl # Null}
Won == {t \in Counted : t.pnl[1] > 0}
Lost == {t \in Counted : t.pnl[1] < 0}

\* the quotient r equals n / d
IsQuotient(r, n, d) == r.den # 0 /\ r.num * d = n * r.den

\* the quotient r is 0
IsZero(r) == r.den # 0 /\ r.num = 0

\* the list is ordered by pnl, descending for sign 1 and ascending for sign -1
OrderedByPnl(list, sign) ==
    \A i, j \in DOMAIN list : i < j => sign * list[i].pnl >= sign * list[j].pnl

\* the list is the first Len(list) rows of pool in that order: it lists rows of
\* pool, none more often than pool has it, and no row left out comes before
\* the last one listed
FirstOf(list, pool, sign) ==
    /\ OrderedByPnl(list, sign)
    /\ \A i \in DOMAIN list :
          \E t \in pool : /\ list[i].pnl = t.pnl[1]
                          /\ list[i].symbol = t.symbol
                          /\ list[i].quantity = t.quantity
    /\ \A t \in pool :
          LET listed == Cardinality({i \in DOMAIN list : list[i].pnl = t.pnl[1]})
              there == Cardinality({u \in pool : u.pnl = t.pnl})
          IN /\ listed <= there
             /\ (list # <<>> /\ sign * t.pnl[1] > sign * list[Len(list)].pnl)
                    => listed = there

\* C14 - Metrics counts: totalTrades is the number of trades in the date range
\* whose pnl is set, winningTrades the number of those with pnl > 0, losingTrades
\* the number with pnl < 0 (so pnl 0 counts toward totalTrades only and unset pnl
\* toward none), and totalPnL is the sum of pnl over the counted trades.
C14_MetricsCounts ==
    MetricsAnswered =>
        /\ response.totalTrades = Cardinality(Counted)
        /\ response.winningTrades = Cardinality(Won)
        /\ response.losingTrades = Cardinality(Lost)
        /\ response.totalPnL = SumPnl(Counted)

C14_Witness ==
    /\ MetricsAnswered
    /\ \E t \in InRange : t.pnl = Null
    /\ \E t \in InRange : t.pnl = Some(0)
    /\ \E t \in InRange : t.pnl = Some(2)
    /\ response.totalTrades = 2 /\ response.winningTrades = 1
    /\ response.losingTrades = 0 /\ response.totalPnL = 2

\* C15 - Win-rate boundary: winRate = winningTrades / totalTrades, no quotient of
\* the result has denominator 0, and when the range holds no trade with pnl set
\* winRate, profitFactor, the counts, the averages and the extremes are all 0.
C15_WinRateBoundary ==
    MetricsAnswered =>
        /\ response.winRate.den # 0 /\ response.profitFactor.den # 0
        /\ response.averageWin.den # 0 /\ response.averageLoss.den # 0
        /\ Counted # {} =>
              IsQuotient(response.winRate, Cardinality(Won), Cardinality(Counted))
        /\ Counted = {} =>
              /\ IsZero(response.winRate) /\ IsZero(response.profitFactor)
              /\ IsZero(response.averageWin) /\ IsZero(response.averageLoss)
              /\ response.totalTrades = 0 /\ response.winningTrades = 0
              /\ response.losingTrades = 0 /\ response.totalPnL = 0
              /\ response.largestWin = 0 /\ response.largestLoss = 0
              /\ response.topWinners = <<>> /\ response.topLosers = <<>>

C15_Witness ==
    /\ MetricsAnswered
    /\ trades # {} /\ Counted = {}
    /\ \E t \in trades : t.pnl # Null
    /\ IsZero(response.winRate) /\ IsZero(response.profitFactor)

\* C16 - Profit factor: averageWin is the mean of the pnl > 0 and averageLoss the
\* mean of the pnl < 0 (0 when there is none); profitFactor is
\* |averageWin / averageLoss| when there is a losing trade and 0 otherwise, so
\* it is 0 without a losing trade and 0 with losing trades but no winning trade.
C16_ProfitFactor ==
    MetricsAnswered =>
        /\ IF Won = {} THEN IsZero(response.averageWin)
           ELSE IsQuotient(response.averageWin, SumPnl(Won), Cardinality(Won))
        /\ IF Lost = {} THEN IsZero(response.averageLoss)
           ELSE IsQuotient(response.averageLoss, SumPnl(Lost), Cardinality(Lost))
        /\ IF Lost = {} \/ Won = {} THEN IsZero(response.profitFactor)
           ELSE IsQuotient(response.profitFactor,
                           SumPnl(Won) * Cardinality(Lost),
                           Cardinality(Won) * (0 - SumPnl(Lost)))

C16_Witness ==
    /\ MetricsAnswered
    /\ Cardinality(Won) = 2 /\ SumPnl(Won) = 3
    /\ Cardinality(Lost) = 1 /\ SumPnl(Lost) = 0 - 1
    /\ IsQuotient(response.profitFactor, 3, 2)

\* C17 as stated - Top lists: topWinners holds the (up to) topLimit trades of
\* highest pnl among the trades in range with pnl set, topLosers those of lowest
\* pnl, also when fewer than topLimit of them won (lost).
C17_AsStated ==
    MetricsAnswered =>
        /\ Len(response.topWinners) = Min(topLimit, Cardinality(Counted))
        /\ FirstOf(response.topWinners, Counted, 1)
        /\ Len(response.topLosers) = Min(topLimit, Cardinality(Counted))
        /\ FirstOf(response.topLosers, Counted, 0 - 1)

\* C17 - Top lists: topWinners holds the (up to) topLimit trades of highest pnl
\* among the trades in range with pnl > 0, by pnl descending; topLosers the (up
\* to) topLimit trades of lowest pnl among those with pnl < 0, by pnl ascending;
\* with fewer than topLimit winners (losers) the list holds just those.
C17_TopLists ==
    MetricsAnswered =>
        /\ Len(response.topWinners) = Min(topLimit, Cardinality(Won))
        /\ FirstOf(response.topWinners, Won, 1)
        /\ Len(response.topLosers) = Min(topLimit, Cardinality(Lost))
        /\ FirstOf(response.topLosers, Lost, 0 - 1)

C17_Witness ==
    /\ MetricsAnswered
    /\ Cardinality(Won) > topLimit
    /\ Len(response.topWinners) = topLimit
    /\ Cardinality(Lost) < topLimit
    /\ Len(response.topLosers) = Cardinality(Lost)
    /\ Cardinality(Counted) > Cardinality(Lost)

\* the local calendar day of a Date
LocalDay(date) == date \div MsPerDay

\* the trades with pnl set whose local day of entry lies between the local days
\* of the bounds of the last metrics call
OnDaysOfRange ==
    {t \in trades :
        /\ t.pnl # Null
        /\ request.dateRange.startDate # Null =>
              LocalDay(request.dateRange.startDate[1]) <= LocalDay(t.entryDate)
        /\ request.dateRange.endDate # Null =>
              LocalDay(t.entryDate) <= LocalDay(request.dateRange.endDate[1])}

\* C18 - Metrics date range: the metrics count exactly the trades with pnl set
\* whose local calendar day of entry lies between the local calendar day of
\* startDate and that of endDate, inclusive; a missing bound does not restrict.
C18_DateRange ==
    MetricsAnswered =>
        /\ response.totalTrades = Cardinality(OnDaysOfRange)
        /\ response.totalPnL = SumPnl(OnDaysOfRange)

\* the trades that the last calendar call put into the entry e
GroupOf(e) == {t \in trades : DATE(entryDateText(t)) * MsPerDay = e.date}

\* C19 - Calendar day values: every entry of the calendar has as tradeCount the
\* number of all trades of its day, with or without pnl, as pnl the sum of their
\* pnl with an unset pnl counting 0, and as winRate the number of them with
\* pnl > 0 divided by tradeCount.
C19_CalendarDayValues ==
    CalendarAnswered =>
        \A i \in DOMAIN response :
            LET e == response[i]
                g == GroupOf(e)
            IN /\ e.tradeCount = Cardinality(g)
               /\ e.tradeCount > 0
               /\ e.pnl = SumPnl({t \in g : t.pnl # Null})
               /\ IsQuotient(e.winRate,
                             Cardinality({t \in g : t.pnl # Null /\ t.pnl[1] > 0}),
                             Cardinality(g))

C19_Witness ==
    /\ CalendarAnswered
    /\ \E i \in DOMAIN response :
          /\ \E t \in GroupOf(response[i]) : t.pnl = Null
          /\ \E t \in GroupOf(response[i]) : t.pnl = Some(1)
          /\ response[i].tradeCount = 2
          /\ response[i].pnl = 1
          /\ IsQuotient(response[i].winRate, 1, 2)

\* the trades entered in the month (0-based) and year of the last calendar
\* call, by the local calendar
EnteredInMonth ==
    {t \in trades :
        /\ CalendarDate(LocalDay(t.entryDate)).month = request.month + 1
        /\ CalendarDate(LocalDay(t.entryDate)).year = request.year}

RECURSIVE SumTradeCount(_)
SumTradeCount(list) ==
    IF list = <<>> THEN 0 ELSE Head(list).tradeCount + SumTradeCount(Tail(list))

\* C20 - Calendar day grouping: the calendar has exactly one entry for each local
\* calendar day of the month and year asked for on which a trade was entered and
\* no other entry; the tradeCount of an entry is the number of trades entered on
\* its day, and the tradeCounts sum to the number of trades entered in the month.
C20_DayGrouping ==
    CalendarAnswered =>
        /\ {response[i].date : i \in DOMAIN response}
              = {LocalDay(t.entryDate) * MsPerDay : t \in EnteredInMonth}
        /\ Len(response) = Cardinality({LocalDay(t.entryDate) : t \in EnteredInMonth})
        /\ \A i \in DOMAIN response :
              response[i].tradeCount =
                  Cardinality({t \in EnteredInMonth :
                                  LocalDay(t.entryDate) * MsPerDay = response[i].date})
        /\ SumTradeCount(response) = Cardinality(EnteredInMonth)

----------------------------------------------------------------------------
\* the step is the answer to an analytics query
QueryStep == request' # request \/ response' # response

\* the sum of the pnl of the entries of a calendar
RECURSIVE SumEntryPnl(_)
SumEntryPnl(list) ==
    IF list = <<>> THEN 0 ELSE Head(list).pnl + SumEntryPnl(Tail(list))

\* C21 - Read-only queries: a step that answers get-performance-metrics or
\* get-calendar-data, wherever it falls between invocations of the matching,
\* leaves the table and the record of matches as they are, and its answer is
\* that of the trades stored at that moment: the pnl it reports is the sum of the
\* pnl of the stored trades that have one, so an unmatched pair adds nothing.
C21_ReadOnlyQueries ==
    [][ QueryStep =>
          /\ trades' = trades /\ nextId' = nextId /\ matches' = matches
          /\ pc = "idle" /\ pc' = "idle"
          /\ request'.channel = "get-performance-metrics" =>
                LET sel == {t \in trades : t.pnl # Null
                                           /\ inDateRange(t, request'.dateRange)}
                IN /\ response'.totalTrades = Cardinality(sel)
                   /\ response'.totalPnL = SumPnl(sel)
          /\ request'.channel = "get-calendar-data" =>
                SumEntryPnl(response') =
                    SumPnl({t \in calendarRows(trades, request'.month, request'.year) :
                               t.pnl # Null}) ]_vars

C21_Witness ==
    /\ MetricsAnswered
    /\ pc = "idle" /\ runs = 1 /\ matches # <<>>
    /\ request.dateRange.startDate = Null
    /\ response.totalTrades = 0 /\ response.totalPnL = 0
    /\ \E t \in trades : t.pnl # Null /\ t.pnl[1] # 0

\* the matches of the invocation that were completed before it failed: all but
\* the one in progress at the failure
CompletedBeforeFailure ==
    {i \in MatchesOfRun : i < Len(matches) \/ ended[runs].found}

\* the originals of the match m are gone and its matched trade is in the table
MatchKept(m) ==
    /\ CompleteRows(m) # {}
    /\ m.buy \notin trades
    /\ m.sell \notin trades

\* the match m left a remainder
LeftRemainder(m) == m.buy.quantity # m.sell.quantity

\* the remainder of the match m, the row saved right after its matched trade,
\* is in the table
RemainderKept(m) ==
    \E r \in trades :
        /\ r.id = m.complete + 1
        /\ r.pnl = Null
        /\ r.quantity = Abs(m.buy.quantity - m.sell.quantity)

\* a later match of the invocation took the remainder of the match i as a leg
RemainderTaken(i) ==
    \E j \in MatchesOfRun :
        /\ j > i
        /\ \/ matches[j].buy.id = matches[i].complete + 1
           \/ matches[j].sell.id = matches[i].complete + 1

\* C22 as stated - No rollback: when a pass of an invocation fails, every match
\* completed in an earlier pass has its matched trade and its remainder in the
\* table and its originals gone.
C22_AsStated ==
    (Ended /\ caught) =>
        \A i \in CompletedBeforeFailure :
            /\ MatchKept(matches[i])
            /\ LeftRemainder(matches[i]) => RemainderKept(matches[i])

\* C22 - No rollback: when a pass of an invocation fails, every match completed
\* in an earlier pass has its matched trade in the table and its originals gone,
\* and its remainder is in the table unless a later match of the invocation
\* took it as a leg.
C22_NoRollback ==
    (Ended /\ caught) =>
        \A i \in CompletedBeforeFailure :
            /\ MatchKept(matches[i])
            /\ LeftRemainder(matches[i]) =>
                  (RemainderKept(matches[i]) \/ RemainderTaken(i))

C22_Witness ==
    /\ Ended /\ caught
    /\ \E i \in CompletedBeforeFailure :
          /\ i < Len(matches)
          /\ matches[Len(matches)].run = runs
          /\ LeftRemainder(matches[i])
          /\ RemainderKept(matches[i])
          /\ MatchKept(matches[i])

----------------------------------------------------------------------------
\* a trade the claim takes as a buy leg (BUY or LONG) or as a sell leg (SELL or
\* SHORT)
BuyLike(t) == t.side \in {"BUY", "LONG"}
SellLike(t) == t.side \in {"SELL", "SHORT"}

\* a symbol with an unmatched BUY or LONG and an unmatched SELL or SHORT
HasSynonymPair(rows, symbol) ==
    /\ \E t \in rows : t.pnl = Null /\ t.symbol = symbol /\ BuyLike(t)
    /\ \E t \in rows : t.pnl = Null /\ t.symbol = symbol /\ SellLike(t)

\* C23 - Side synonyms: LONG counts as BUY and SHORT as SELL for matching, so
\* an invocation that ended below the iteration ceiling without a failure
\* leaves no symbol with an unmatched BUY or LONG trade and an unmatched SELL or
\* SHORT trade.
C23_SideSynonyms ==
    (Ended /\ ~caught /\ iterationCount < maxIterations) =>
        \A sy \in SymbolsOf(trades) : ~HasSynonymPair(trades, sy)

----------------------------------------------------------------------------
\* the steps of a pass that apply its match after the matched trade is saved
ApplyingMatch == pc \in {"deleteBuy", "deleteSell", "remainderBuy", "remainderSell"}

\* the symbols with an unmatched BUY and an unmatched SELL
EligibleSymbols(rows) == {sy \in SymbolsOf(rows) : HasPair(rows, sy)}

\* C24 - One match per pass on fresh data: both legs of every match were in the
\* table and unmatched when the pass of that match read it, the legs a pass has
\* chosen are in the table when the pass starts applying the match, and an
\* invocation has applied exactly one match in each of its passes (none in a
\* last pass that found no pair).
C24_OneMatchPerPass ==
    /\ \A i \in DOMAIN matches :
          /\ matches[i].buy \in unmatchedTrades(matches[i].before)
          /\ matches[i].sell \in unmatchedTrades(matches[i].before)
          /\ matches[i].buy.symbol = matches[i].sell.symbol
    /\ pc = "saveComplete" =>
          /\ {buy, sell} \subseteq unmatchedTrades(trades)
          /\ Cardinality(MatchesOfRun) = iterationCount - 1
    /\ ApplyingMatch => Cardinality(MatchesOfRun) = iterationCount
    /\ pc = "loop" =>
          Cardinality(MatchesOfRun) = IF hasMatches THEN iterationCount
                                      ELSE iterationCount - 1

\* the first pass of an invocation had two eligible symbols and applied one
\* match; the other symbol is still eligible for the second pass
C24_Witness ==
    /\ MatchApplied
    /\ iterationCount = 1
    /\ Cardinality(MatchesOfRun) = 1
    /\ Cardinality(EligibleSymbols(LastMatch.before)) = 2
    /\ EligibleSymbols(trades) # {}
    /\ LastMatch.buy.symbol \notin EligibleSymbols(trades)

----------------------------------------------------------------------------
\* the unmatched trades of the table that tie with leg (same symbol, side and
\* entry date) and were inserted before it
EarlierTies(leg) ==
    {t \in unmatchedTrades(trades) :
        /\ t.symbol = leg.symbol
        /\ t.side = leg.side
        /\ t.entryDate = leg.entryDate
        /\ t.id < leg.id}

\* C25 - Deterministic tie-break: among the unmatched trades of one side of a
\* symbol that have the same entry date, a pass takes the one with the lowest
\* identifier as its leg.
C25_TieBreak ==
    pc = "saveComplete" => (EarlierTies(buy) = {} /\ EarlierTies(sell) = {})

----------------------------------------------------------------------------
\* a date at the precision saveTrade stores: whole seconds
ToSecond(date) == date - (date % MsPerSecond)

\* the matched trade c is the long round trip of the legs b and s
IsLongRoundTrip(c, b, s) ==
    LET q == IF b.quantity <= s.quantity THEN b.quantity ELSE s.quantity
    IN /\ c.side = "BUY"
       /\ c.quantity = q
       /\ c.entryPrice = b.entryPrice
       /\ c.exitPrice = Some(s.entryPrice)
       /\ c.pnl = Some((s.entryPrice - b.entryPrice) * q
                          - OrZero(b.commission) - OrZero(s.commission))
       /\ c.entryDate = ToSecond(b.entryDate)
       /\ c.exitDate = Some(ToSecond(s.entryDate))

\* a pass has just ended without a match
PassFoundNothing == pc = "loop" /\ ~hasMatches /\ iterationCount > 0

----------------------------------------------------------------------------
\* the table as it was before the first match: the executions originally entered
OriginalTable == matches[1].before

\* the matched trades of a symbol that the matching saved and the table holds
MatchedBy(symbol) ==
    {t \in trades : t.symbol = symbol /\ \E i \in DOMAIN matches : t.id = matches[i].complete}

\* the unmatched executions of a symbol and side originally entered
OriginalLegs(symbol, side) ==
    {t \in unmatchedTrades(OriginalTable) : t.symbol = symbol /\ t.side = side}

\* C27 - No double consumption across failure and retry: over any sequence of
\* invocations, failed ones included, no row is the buy leg of two matches or
\* the sell leg of two matches, and for every symbol the quantity of the matched
\* trades the matching has saved exceeds neither the BUY quantity nor the SELL
\* quantity originally entered.
C27_NoDoubleConsumption ==
    /\ \A i, j \in DOMAIN matches :
          i < j => /\ matches[i].buy.id # matches[j].buy.id
                   /\ matches[i].sell.id # matches[j].sell.id
    /\ matches # <<>> =>
          \A sy \in SymbolsOf(OriginalTable) :
              /\ SumQuantity(MatchedBy(sy)) <= SumQuantity(OriginalLegs(sy, "BUY"))
              /\ SumQuantity(MatchedBy(sy)) <= SumQuantity(OriginalLegs(sy, "SELL"))

----------------------------------------------------------------------------
\* C28 - Warning precision: the iteration-limit warning is issued only when the
\* loop was cut off by the ceiling, that is when the last pass allowed still
\* applied a match; an invocation whose last pass found no pair ends without it.
C28_WarningPrecision ==
    (Ended /\ warned) => StoppedByLimit

----------------------------------------------------------------------------
\* the sum of the commission column over rows, an absent commission counting 0
RECURSIVE SumCommission(_)
SumCommission(rows) ==
    IF rows = {} THEN 0
    ELSE LET t == CHOOSE u \in rows : TRUE
         IN OrZero(t.commission) + SumCommission(rows \ {t})

\* C29 - Commission conservation: a match that has been applied in full leaves
\* the sum of the commission column over the whole table as it was before the
\* match, so between passes and at the end of an invocation without a failure
\* the commissions of the matched and the unmatched trades together are those
\* of the table the invocation started from.
C29_CommissionConservation ==
    /\ MatchApplied => SumCommission(trades) = SumCommission(LastMatch.before)
    /\ (pc = "loop" \/ (Ended /\ ~caught)) =>
          SumCommission(trades) = SumCommission(trades0)

\* a remainder of a leg that carried a commission has been matched in its turn
C29_Witness ==
    /\ MatchApplied
    /\ LastMatch.buy.notes.remainder > 0
    /\ SumCommission(trades) > 0
    /\ SumCommission(unmatchedTrades(trades)) = 0
    /\ Cardinality(MatchesOfRun) >= 2

----------------------------------------------------------------------------
\* the unmatched quantity of a symbol on one side
UnmatchedQuantity(rows, symbol, side) ==
    SumQuantity({t \in unmatchedTrades(rows) : t.symbol = symbol /\ t.side = side})

\* the unmatched rows the last match added to the table: its remainders
NewUnmatched == unmatchedTrades(trades) \ LastMatch.before

\* C30 - Open-position conservation: a match that has been applied in full
\* leaves the open position of every symbol as it was before the match, lowers
\* the unmatched BUY quantity and the unmatched SELL quantity of its symbol by
\* exactly the matched quantity and those of the other symbols not at all, adds
\* at most one remainder, and lowers the number of unmatched trades by at least
\* one.
C30_OpenPosition ==
    MatchApplied =>
        LET before == LastMatch.before
            q == Min(LastMatch.buy.quantity, LastMatch.sell.quantity)
            matched(sy) == IF sy = LastMatch.buy.symbol THEN q ELSE 0
        IN /\ \A sy \in SymbolsOf(before \cup trades) :
                 /\ NetPosition(trades, sy) = NetPosition(before, sy)
                 /\ UnmatchedQuantity(trades, sy, "BUY")
                       = UnmatchedQuantity(before, sy, "BUY") - matched(sy)
                 /\ UnmatchedQuantity(trades, sy, "SELL")
                       = UnmatchedQuantity(before, sy, "SELL") - matched(sy)
           /\ Cardinality(NewUnmatched) <= 1
           /\ Cardinality(unmatchedTrades(trades))
                 <= Cardinality(unmatchedTrades(before)) - 1

\* a partial fill left one remainder and an open position, with a second symbol
\* in the table
C30_Witness ==
    /\ MatchApplied
    /\ Cardinality(NewUnmatched) = 1
    /\ NetPosition(trades, LastMatch.buy.symbol) # 0
    /\ Cardinality(SymbolsOf(unmatchedTrades(trades))) = 2
    /\ Cardinality(unmatchedTrades(trades))
          = Cardinality(unmatchedTrades(LastMatch.before)) - 1

====
